---- MODULE Spec2Model ----
(***************************************************************************)
(* Model of src/index.js: a Steam idler that logs on with layered          *)
(* credentials, persists the sentry blob, and retries failed logons with   *)
(* bounded exponential backoff.                                            *)
(*                                                                         *)
(* The file holds two script variants.  Lines 95-261 are the variant with  *)
(* the retry state machine (specification Spec); lines 1-93 are the        *)
(* earlier variant with the AUTHCODE path (specification SpecFirst).       *)
(*                                                                         *)
(* JavaScript runs every handler to completion, so each handler (and the   *)
(* top-level script) is one action.  The steam-user client, the file       *)
(* system and the TOTP generator are the environment: their events and     *)
(* their failures are the actions' inputs.                                 *)
(***************************************************************************)
EXTENDS Integers, Sequences, FiniteSets, TLC

VARIABLES
    USERNAME,       \* process.env.USERNAME || process.env.username ("" = unset)
    PASSWORD,       \* process.env.PASSWORD || process.env.password ("" = unset)
    SHARED_SECRET,  \* process.env.SHARED_SECRET || process.env.shared ("" = unset)
    SENTRY_ENV,     \* process.env.SENTRY, base64 text ("" = unset)
    AUTHCODE,       \* process.env.AUTHCODE (first variant only, "" = unset)
    pc,             \* "start" | "running" | "exited"
    exitCode,       \* status passed to process.exit, NoExit while alive
    sentryFile,     \* content of ./sentry: NoFile, a token, or Truncated
    retryCount,     \* let retryCount
    timers,         \* number of pending setTimeout callbacks
    armed,          \* number of setTimeout calls made so far
    delays,         \* the delays of the latest timers armed, newest last
    lastCode,       \* the argument of the latest scheduleRetry call
    client,         \* the steam-user handle: "disconnected" | "connecting" | "connected"
    logins,         \* client.logOn calls accepted by the client
    opts,           \* the bundle built by the latest handler (NoOpts: none)
    persona,        \* last client.setPersona argument (NoPersona before)
    played,         \* last client.gamesPlayed argument
    answered,       \* code handed to the steamGuard callback ("" = never)
    event,          \* the handler (or file-system step) that ran last
    calls           \* external calls made by that handler, in order

config == <<USERNAME, PASSWORD, SHARED_SECRET, SENTRY_ENV, AUTHCODE>>
retry  == <<retryCount, timers, armed, delays, lastCode>>
vars   == <<USERNAME, PASSWORD, SHARED_SECRET, SENTRY_ENV, AUTHCODE, pc, exitCode,
            sentryFile, retryCount, timers, armed, delays, lastCode, client, logins, opts,
            persona, played, answered, event, calls>>

----------------------------------------------------------------------------
(* Values *)

MAX_RETRIES == 6
RateLimitExceeded == 84
OK == 1
Undefined == -1          \* JavaScript's undefined in a numeric position
RateLimitBase == 60000
DefaultBase == 30000
Invisible == 7
NoExit == -1
NoPersona == -1

NoFile == "ENOENT"       \* fs.existsSync(SENTRY_PATH) is false
Truncated == "truncated" \* the file exists, its write was cut short
Absent == "absent"       \* an option the bundle does not carry
Tokens == {"tokA", "tokB"}

games == <<730, 714010, 440, 3419430, 291550, 1938090, 1905180, 1275350,
           2021910, 1665460, 666220, 2281730, 578080>>

Usernames == {"", "acct"}
Passwords == {"", "pw"}
Secrets == {"", "SECRET", "not-a-secret"}
AuthCodes == {"", "K7XQ2"}

\* sentry.toString('base64') and Buffer.from(text, 'base64')
ToBase64(tok) == "b64:" \o tok
FromBase64(text) == CHOOSE tok \in Tokens : ToBase64(tok) = text
SentryEnvs == {""} \cup {ToBase64(tok) : tok \in Tokens}

\* eresult values the client may report
\* (0 = Invalid, 2 = Fail, 5 = InvalidPassword)
ResponseCodes == {Undefined, 0, OK, 2, RateLimitExceeded}
ErrorCodes == {Undefined, 5}
ThrowCodes == {Undefined}

\* JavaScript truthiness of a string and of a number-or-undefined
TruthyStr(s) == s # ""
TruthyNum(n) == n # 0 /\ n # Undefined

Max(a, b) == IF a >= b THEN a ELSE b

RECURSIVE Pow2(_)
Pow2(n) == IF n <= 0 THEN 1 ELSE 2 * Pow2(n - 1)

\* steamTotp.generateAuthCode: throws on a malformed secret
GeneratorThrows(secret) == secret = "not-a-secret"
GenerateAuthCode(secret) == "totp:" \o secret

\* The model keeps the delays of the latest Window timers
Window == 3
Latest(seq) == IF Len(seq) > Window THEN Tail(seq) ELSE seq

NoOpts == [accountName |-> Absent, password |-> Absent,
           sentry |-> Absent, twoFactorCode |-> Absent]
\* name: the handler; code: the eresult it was given; token: the sentry it
\* was given; io: how its write to ./sentry ended ("none": it wrote nothing);
\* read: how its read of ./sentry ended ("none": it read nothing)
NoEvent == [name |-> "none", code |-> Undefined, token |-> Absent, io |-> "none",
            read |-> "none"]
Ev(n, c, t, o) == [name |-> n, code |-> c, token |-> t, io |-> o, read |-> "none"]
ReadIo(file, readFails) ==
    IF file = NoFile THEN "none" ELSE IF readFails THEN "fails" ELSE "ok"

----------------------------------------------------------------------------
(* Second variant, lines 95-261 *)

\* Mutant of Delay: the exponent is the retry count, not the count less one
DelayNoExponent(eresultCode, count) ==
    IF eresultCode = RateLimitExceeded THEN RateLimitBase ELSE DefaultBase

DelayOffByOne(eresultCode, count) ==
    LET base == IF eresultCode = RateLimitExceeded THEN RateLimitBase ELSE DefaultBase
    IN  base * Pow2(Max(0, count))

\* const base = ...; const delay = base * Math.pow(2, Math.max(0, retryCount - 1))
Delay(eresultCode, count) ==
    LET base == IF eresultCode = RateLimitExceeded THEN RateLimitBase ELSE DefaultBase
    IN  base * Pow2(Max(0, count - 1))

\* Mutants of Exhausted: the ceiling test one late, and one early
ExhaustedLate(count) == count > MAX_RETRIES + 1
ExhaustedEarly(count) == count >= MAX_RETRIES

\* if (retryCount > MAX_RETRIES)
Exhausted(count) == count > MAX_RETRIES

\* Mutant of BuildLogOnOptions: the code generated for the first attempt is
\* kept and used again by the retries
BuildLogOnOptionsFromEnv(file, readFails) ==
    LET exists == file # NoFile
        useSecret == TruthyStr(SHARED_SECRET)
    IN  [opts |->
            [accountName |-> USERNAME,
             password |-> PASSWORD,
             sentry |-> IF exists /\ ~readFails
                        THEN (IF TruthyStr(SENTRY_ENV)
                              THEN FromBase64(SENTRY_ENV) ELSE file)
                        ELSE Absent,
             twoFactorCode |-> IF useSecret /\ ~GeneratorThrows(SHARED_SECRET)
                               THEN GenerateAuthCode(SHARED_SECRET) ELSE Absent],
         calls |-> (IF exists THEN <<"readFileSync">> ELSE <<>>)
                   \o (IF useSecret THEN <<"generateAuthCode">> ELSE <<>>)]

BuildLogOnOptionsCached(file, readFails) ==
    LET exists == file # NoFile
        useSecret == TruthyStr(SHARED_SECRET)
    IN  [opts |->
            [accountName |-> USERNAME,
             password |-> PASSWORD,
             sentry |-> IF exists /\ ~readFails THEN file ELSE Absent,
             twoFactorCode |-> IF useSecret /\ ~GeneratorThrows(SHARED_SECRET)
                               THEN GenerateAuthCode(SHARED_SECRET) ELSE Absent],
         calls |-> (IF exists THEN <<"readFileSync">> ELSE <<>>)
                   \o (IF useSecret /\ pc = "start"
                       THEN <<"generateAuthCode">> ELSE <<>>)]

\* function buildLogOnOptions(): the bundle and the calls made to build it
BuildLogOnOptions(file, readFails) ==
    LET exists == file # NoFile
        useSecret == TruthyStr(SHARED_SECRET)
    IN  [opts |->
            [accountName |-> USERNAME,
             password |-> PASSWORD,
             sentry |-> IF exists /\ ~readFails THEN file ELSE Absent,
             twoFactorCode |-> IF useSecret /\ ~GeneratorThrows(SHARED_SECRET)
                               THEN GenerateAuthCode(SHARED_SECRET) ELSE Absent],
         calls |-> (IF exists THEN <<"readFileSync">> ELSE <<>>)
                   \o (IF useSecret THEN <<"generateAuthCode">> ELSE <<>>)]

\* process.exit(1): the process, its timers and its connection are gone
Exit(log) ==
    /\ pc' = "exited"
    /\ exitCode' = 1
    /\ timers' = 0
    /\ client' = "disconnected"
    /\ calls' = log \o <<"exit">>

ScheduleRetryUncaught(eresultCode, pending, log, handle, logOffThrows) ==
    /\ retryCount' = retryCount + 1
    /\ lastCode' = eresultCode
    /\ IF Exhausted(retryCount + 1)
       THEN /\ Exit(log)
            /\ UNCHANGED <<armed, delays>>
       ELSE IF logOffThrows
       THEN /\ UNCHANGED <<armed, delays, exitCode>>
            /\ client' = handle
            /\ timers' = pending
            /\ calls' = log \o <<"logOff">>
            /\ pc' = "running"
       ELSE /\ armed' = armed + 1
            /\ delays' = Latest(Append(delays, Delay(eresultCode, retryCount + 1)))
            /\ client' = "disconnected"
            /\ timers' = pending + 1
            /\ calls' = log \o <<"logOff", "setTimeout">>
            /\ pc' = "running"
            /\ exitCode' = exitCode

\* function scheduleRetry(eresultCode), entered with `pending` timers waiting
\* and the client handle in state `handle`
ScheduleRetry(eresultCode, pending, log, handle, logOffThrows) ==
    /\ retryCount' = retryCount + 1
    /\ lastCode' = eresultCode
    /\ IF Exhausted(retryCount + 1)
       THEN /\ Exit(log)
            /\ UNCHANGED <<armed, delays>>
       ELSE /\ armed' = armed + 1
            /\ delays' = Latest(Append(delays, Delay(eresultCode, retryCount + 1)))
            /\ client' = IF logOffThrows THEN handle ELSE "disconnected"
            /\ timers' = pending + 1
            /\ calls' = log \o <<"logOff", "setTimeout">>
            /\ pc' = "running"
            /\ exitCode' = exitCode

\* Mutants of NoCredentialSource: the test made on the first attempt only, and
\* the test made on the code that was generated instead of on the secret
NoCredentialSourceAtStart(file) ==
    ~TruthyStr(SHARED_SECRET) /\ file = NoFile /\ pc = "start"
NoCredentialSourceByCode(file) ==
    (~TruthyStr(SHARED_SECRET) \/ GeneratorThrows(SHARED_SECRET)) /\ file = NoFile

\* if (!SHARED_SECRET && !fs.existsSync(SENTRY_PATH))
NoCredentialSource(file) == ~TruthyStr(SHARED_SECRET) /\ file = NoFile

\* function attemptLogin(), reading `file` as the content of ./sentry
AttemptLogin(file, pending, log, readFails, logOnThrows, thrown, logOffThrows) ==
    LET b == BuildLogOnOptions(file, readFails)
    IN  /\ opts' = b.opts
        /\ IF NoCredentialSource(file)
           THEN /\ Exit(log \o b.calls)
                /\ UNCHANGED <<retryCount, armed, delays, lastCode, logins>>
           ELSE IF ~(logOnThrows /\ client # "disconnected")
           THEN /\ logins' = logins + 1
                /\ client' = "connecting"
                /\ timers' = pending
                /\ calls' = log \o b.calls \o <<"logOn">>
                /\ pc' = "running"
                /\ UNCHANGED <<exitCode, retryCount, armed, delays, lastCode>>
           ELSE /\ ScheduleRetry(thrown, pending, log \o b.calls \o <<"logOn">>,
                                 client, logOffThrows)
                /\ UNCHANGED logins

\* Mutant of WriteFile: an existing file is left as it is
WriteFileIfAbsent(old, data, outcome) ==
    CASE outcome = "ok" -> IF old = NoFile THEN data ELSE old
      [] outcome = "open" -> old
      [] outcome = "write" -> Truncated

\* fs.writeFileSync(SENTRY_PATH, sentry): "ok"; "open" fails before the file
\* is touched; "write" fails after it was opened for writing (truncated)
WriteOutcomes == {"ok", "open", "write"}
WriteFile(old, data, outcome) ==
    CASE outcome = "ok" -> data
      [] outcome = "open" -> old
      [] outcome = "write" -> Truncated

SeedAlways == TruthyStr(SENTRY_ENV)

\* if (SENTRY_ENV && !fs.existsSync(SENTRY_PATH)) { try { fs.writeFileSync(...) } ... }
SeedWrites == TruthyStr(SENTRY_ENV) /\ sentryFile = NoFile
Seeded(outcome) ==
    IF SeedWrites THEN WriteFile(sentryFile, FromBase64(SENTRY_ENV), outcome)
    ELSE sentryFile
SeedIo(outcome) == IF SeedWrites THEN outcome ELSE "none"

\* Mutant of MissingCredentials: && in place of ||
MissingBoth == ~TruthyStr(USERNAME) /\ ~TruthyStr(PASSWORD)

\* if (!USERNAME || !PASSWORD)
MissingCredentials == ~TruthyStr(USERNAME) \/ ~TruthyStr(PASSWORD)

\* The top-level script: credential check, seeding, handler registration,
\* and the first attemptLogin()
Main ==
    /\ pc = "start"
    /\ UNCHANGED <<config, persona, played, answered>>
    /\ IF MissingCredentials
       THEN /\ event' = Ev("main", Undefined, Absent, "none")
            /\ Exit(<<>>)
            /\ opts' = NoOpts
            /\ UNCHANGED <<sentryFile, retryCount, armed, delays, lastCode, logins>>
       ELSE \E outcome \in WriteOutcomes :
            \E readFails, logOnThrows, logOffThrows \in BOOLEAN :
            \E thrown \in ThrowCodes :
                /\ event' = [Ev("main", Undefined, Absent, SeedIo(outcome))
                             EXCEPT !.read = ReadIo(Seeded(outcome), readFails)]
                /\ sentryFile' = Seeded(outcome)
                /\ AttemptLogin(Seeded(outcome), 0,
                                IF SeedWrites THEN <<"writeFileSync">> ELSE <<>>,
                                readFails, logOnThrows, thrown, logOffThrows)

\* setTimeout(() => { attemptLogin(); }, delay)
TimerFires ==
    /\ pc = "running"
    /\ timers > 0
    /\ UNCHANGED <<config, sentryFile, persona, played, answered>>
    /\ \E readFails, logOnThrows, logOffThrows \in BOOLEAN :
       \E thrown \in ThrowCodes :
         /\ event' = [Ev("timer", Undefined, Absent, "none")
                      EXCEPT !.read = ReadIo(sentryFile, readFails)]
         /\ AttemptLogin(sentryFile, timers - 1, <<>>,
                        readFails, logOnThrows, thrown, logOffThrows)

\* Mutant of Retryable: only the rate limit is retried
RetryableRateLimitOnly(eresult) == eresult = RateLimitExceeded

\* if (response && response.eresult && response.eresult !== 1)
Retryable(eresult) == TruthyNum(eresult) /\ eresult # OK

\* client.on('logOnResponse', (response) => ...).  A failing response ends the
\* logon it answers: a connecting client is disconnected when the handler runs.
LogOnResponse ==
    /\ pc = "running"
    /\ logins > 0
    /\ \E code \in ResponseCodes :
        /\ event' = Ev("logOnResponse", code, Absent, "none")
        /\ IF Retryable(code)
           THEN \E logOffThrows \in BOOLEAN :
                    ScheduleRetry(code, timers, <<>>,
                                  IF client = "connecting" THEN "disconnected"
                                  ELSE client,
                                  logOffThrows)
           ELSE /\ calls' = <<>>
                /\ UNCHANGED <<pc, exitCode, retry, client>>
    /\ opts' = NoOpts
    /\ UNCHANGED <<config, sentryFile, logins, persona, played, answered>>

\* client.on('error', (err) => ...): logs only.  The client emits it when a
\* logon fails or the session is lost, and is disconnected afterwards.
Error ==
    /\ pc = "running"
    /\ client \in {"connecting", "connected"}
    /\ \E code \in ErrorCodes : event' = Ev("error", code, Absent, "none")
    /\ client' = "disconnected"
    /\ calls' = <<>>
    /\ opts' = NoOpts
    /\ UNCHANGED <<config, pc, exitCode, sentryFile, retry, logins,
                   persona, played, answered>>

\* client.on('loggedOn', () => ...)
GamesBeforePersona == <<"gamesPlayed", "setPersona">>

LoggedOnResetting ==
    /\ pc = "running"
    /\ client = "connecting"
    /\ event' = Ev("loggedOn", Undefined, Absent, "none")
    /\ client' = "connected"
    /\ persona' = Invisible
    /\ played' = games
    /\ calls' = <<"setPersona", "gamesPlayed">>
    /\ opts' = NoOpts
    /\ retryCount' = 0
    /\ UNCHANGED <<config, pc, exitCode, sentryFile, timers, armed, delays,
                   lastCode, logins, answered>>

\* client.setPersona(7); then client.gamesPlayed(games);
LoggedOnCalls == <<"setPersona", "gamesPlayed">>

LoggedOn ==
    /\ pc = "running"
    /\ client = "connecting"
    /\ event' = Ev("loggedOn", Undefined, Absent, "none")
    /\ client' = "connected"
    /\ persona' = Invisible
    /\ played' = games
    /\ calls' = LoggedOnCalls
    /\ opts' = NoOpts
    /\ UNCHANGED <<config, pc, exitCode, sentryFile, retry, logins, answered>>

\* client.on('steamGuard', (domain, callback, lastCodeWrong) => ...)
SteamGuard ==
    /\ pc = "running"
    /\ client = "connecting"
    /\ event' = Ev("steamGuard", Undefined, Absent, "none")
    /\ Exit(<<>>)
    /\ opts' = NoOpts
    /\ UNCHANGED <<config, sentryFile, retryCount, armed, delays, lastCode, logins,
                   persona, played, answered>>

\* client.on('sentry', (sentry) => ...)
Sentry ==
    /\ pc = "running"
    /\ client = "connected"
    /\ \E tok \in Tokens : \E outcome \in WriteOutcomes :
        /\ event' = Ev("sentry", Undefined, tok, outcome)
        /\ sentryFile' = WriteFile(sentryFile, tok, outcome)
    /\ calls' = <<"writeFileSync">>
    /\ opts' = NoOpts
    /\ UNCHANGED <<config, pc, exitCode, retry, client, logins,
                   persona, played, answered>>

\* The file system outside the program: ./sentry is removed (a redeploy, a
\* cleaned working directory) while the process runs
Unlink ==
    /\ pc = "running"
    /\ sentryFile # NoFile
    /\ sentryFile' = NoFile
    /\ event' = Ev("unlink", Undefined, Absent, "none")
    /\ calls' = <<>>
    /\ opts' = NoOpts
    /\ UNCHANGED <<config, pc, exitCode, retry, client, logins,
                   persona, played, answered>>

Init ==
    /\ USERNAME \in Usernames
    /\ PASSWORD \in Passwords
    /\ SHARED_SECRET \in Secrets
    /\ SENTRY_ENV \in {"", ToBase64("tokB")}
    /\ AUTHCODE = ""
    /\ pc = "start"
    /\ exitCode = NoExit
    /\ sentryFile \in {NoFile, "tokA"}
    /\ retryCount = 0
    /\ timers = 0
    /\ armed = 0
    /\ delays = <<>>
    /\ lastCode = Undefined
    /\ client = "disconnected"
    /\ logins = 0
    /\ opts = NoOpts
    /\ persona = NoPersona
    /\ played = <<>>
    /\ answered = ""
    /\ event = NoEvent
    /\ calls = <<>>

Next ==
    \/ Main
    \/ TimerFires
    \/ LogOnResponse
    \/ Error
    \/ LoggedOn
    \/ SteamGuard
    \/ Sentry
    \/ Unlink

Spec == Init /\ [][Next]_vars

\* A remote reply that ends a pending login: loggedOn, steamGuard, error, or
\* a logOnResponse that the handler hands to scheduleRetry.
FailingResponse == LogOnResponse /\ retryCount' = retryCount + 1
Resolve ==
    /\ client = "connecting"
    /\ (LoggedOn \/ SteamGuard \/ Error \/ FailingResponse)

\* The same program where the script runs, an armed setTimeout eventually
\* fires and the remote service eventually answers a pending login.
LiveSpec ==
    /\ Init /\ [][Next]_vars
    /\ WF_vars(Main) /\ WF_vars(TimerFires) /\ WF_vars(Resolve)

----------------------------------------------------------------------------
(* First variant, lines 1-93: one logon, no retry, AUTHCODE answers the    *)
(* Steam Guard challenge.  Its sentry, error and loggedOn handlers do what *)
(* the second variant's do.                                                *)

\* const logOnOptions = {...}: the 2FA code first, then the sentry file
LogOnOptionsFirst(file, readFails) ==
    LET exists == file # NoFile
        useSecret == TruthyStr(SHARED_SECRET)
    IN  [opts |->
            [accountName |-> USERNAME,
             password |-> PASSWORD,
             sentry |-> IF exists /\ ~readFails THEN file ELSE Absent,
             twoFactorCode |-> IF useSecret /\ ~GeneratorThrows(SHARED_SECRET)
                               THEN GenerateAuthCode(SHARED_SECRET) ELSE Absent],
         calls |-> (IF useSecret THEN <<"generateAuthCode">> ELSE <<>>)
                   \o (IF exists THEN <<"readFileSync">> ELSE <<>>)]

\* The top-level script of the first variant, ending in client.logOn(logOnOptions)
MainFirst ==
    /\ pc = "start"
    /\ UNCHANGED <<config, retry, persona, played, answered>>
    /\ IF MissingCredentials
       THEN /\ event' = Ev("main", Undefined, Absent, "none")
            /\ pc' = "exited"
            /\ exitCode' = 1
            /\ client' = "disconnected"
            /\ calls' = <<"exit">>
            /\ opts' = NoOpts
            /\ UNCHANGED <<sentryFile, logins>>
       ELSE \E outcome \in WriteOutcomes : \E readFails \in BOOLEAN :
            LET b == LogOnOptionsFirst(Seeded(outcome), readFails)
            IN  /\ event' = [Ev("main", Undefined, Absent, SeedIo(outcome))
                             EXCEPT !.read = ReadIo(Seeded(outcome), readFails)]
                /\ sentryFile' = Seeded(outcome)
                /\ opts' = b.opts
                /\ logins' = logins + 1
                /\ client' = "connecting"
                /\ calls' = (IF SeedWrites THEN <<"writeFileSync">> ELSE <<>>)
                            \o b.calls \o <<"logOn">>
                /\ pc' = "running"
                /\ exitCode' = exitCode

\* client.on('steamGuard', ...) of the first variant
SteamGuardFirst ==
    /\ pc = "running"
    /\ client = "connecting"
    /\ event' = Ev("steamGuard", Undefined, Absent, "none")
    /\ opts' = NoOpts
    /\ IF TruthyStr(AUTHCODE)
       THEN /\ answered' = AUTHCODE
            /\ calls' = <<"callback">>
            /\ UNCHANGED <<pc, exitCode, timers, client>>
       ELSE /\ Exit(<<>>)
            /\ UNCHANGED answered
    /\ UNCHANGED <<config, sentryFile, retryCount, armed, delays, lastCode, logins,
                   persona, played>>

InitFirst ==
    /\ USERNAME \in Usernames
    /\ PASSWORD \in Passwords
    /\ SHARED_SECRET \in Secrets
    /\ SENTRY_ENV \in {"", ToBase64("tokB")}
    /\ AUTHCODE \in AuthCodes
    /\ pc = "start"
    /\ exitCode = NoExit
    /\ sentryFile \in {NoFile, "tokA"}
    /\ retryCount = 0
    /\ timers = 0
    /\ armed = 0
    /\ delays = <<>>
    /\ lastCode = Undefined
    /\ client = "disconnected"
    /\ logins = 0
    /\ opts = NoOpts
    /\ persona = NoPersona
    /\ played = <<>>
    /\ answered = ""
    /\ event = NoEvent
    /\ calls = <<>>

NextFirst ==
    \/ MainFirst
    \/ SteamGuardFirst
    \/ Error
    \/ LoggedOn
    \/ Sentry
    \/ Unlink

SpecFirst == InitFirst /\ [][NextFirst]_vars

----------------------------------------------------------------------------
(* Properties *)

Exited == pc = "exited" /\ exitCode # 0 /\ exitCode # NoExit
Count(seq, x) == Cardinality({i \in 1..Len(seq) : seq[i] = x})
\* The retry whose delay is delays[i]
RetryOf(i) == armed - Len(delays) + i

\* C1: the delay armed on the N-th failure (1 <= N <= 6) is 60000 * 2^(N-1) ms
\* when that failure's code is 84 and 30000 * 2^(N-1) ms for any other code:
\* every delay kept is one of the two values for its N, and the newest is the
\* value for the code scheduleRetry was just called with.
C1_DelayFormula ==
    /\ \A i \in 1..Len(delays) :
           /\ RetryOf(i) \in 1..6
           /\ delays[i] \in {60000 * 2^(RetryOf(i) - 1), 30000 * 2^(RetryOf(i) - 1)}
    /\ (armed > 0 /\ retryCount = armed) =>
           delays[Len(delays)] =
               (IF lastCode = 84 THEN 60000 ELSE 30000) * 2^(retryCount - 1)
\* Failures [84, 84, 2] have armed [60000, 120000, 120000]
C1_Witness ==
    /\ armed = 3 /\ retryCount = 3 /\ lastCode = 2
    /\ delays = <<60000, 120000, 120000>>

\* C2 (as claimed): the retry count is at most 6 in every reachable state.
C2_AtMostSix == retryCount <= 6
\* C2 (amended): the retry count is at most 6 while the process is alive; the
\* 7th failure raises it to 7 in the call that terminates the process with
\* status 1, and it is never larger.
C2_AtMostSixAlive ==
    /\ retryCount \in 0..7
    /\ ~Exited => retryCount <= 6
    /\ retryCount = 7 => pc = "exited" /\ exitCode = 1
C2_Witness == retryCount = 7 /\ pc = "exited"

\* C3: the 7th failure routed to scheduleRetry terminates the process with a
\* non-zero status, issues no logOff, arms no timer and submits no login, and
\* nothing is submitted after it; each of the first 6 failures arms exactly one
\* timer (one further attempt).
C3_SeventhFailureAborts ==
    [][ /\ retryCount' = retryCount + 1 =>
             IF retryCount' = 7
             THEN /\ pc' = "exited" /\ exitCode' # 0 /\ exitCode' # NoExit
                  /\ armed' = armed /\ timers' = 0 /\ logins' = logins
                  /\ Count(calls', "logOff") = 0
                  /\ Count(calls', "setTimeout") = 0
             ELSE /\ retryCount' \in 1..6
                  /\ pc' = "running"
                  /\ armed' = armed + 1
                  /\ Count(calls', "setTimeout") = 1
        /\ pc = "exited" => logins' = logins /\ armed' = armed
      ]_vars
C3_Witness ==
    /\ retryCount = 7 /\ armed = 6 /\ exitCode = 1
    /\ event.name = "logOnResponse" /\ calls = <<"exit">>

\* C4 (as claimed): a steamGuard event, whatever the retry budget and the
\* configuration, terminates the process with a non-zero status without
\* incrementing the retry count, arming a timer or invoking the challenge
\* callback.
C4_ChallengeAborts ==
    [][ event'.name = "steamGuard" =>
            /\ pc' = "exited" /\ exitCode' # 0 /\ exitCode' # NoExit
            /\ retryCount' = retryCount
            /\ armed' = armed /\ timers' = 0
            /\ answered' = answered
            /\ Count(calls', "callback") = 0
            /\ Count(calls', "setTimeout") = 0
      ]_vars

\* C5 (as claimed): there is never more than one pending retry timer, and a
\* login is never submitted while the previous one is unresolved.
C5_OneOutstanding ==
    [][ /\ timers' <= 1
        /\ logins' > logins => client # "connecting"
      ]_vars

\* C6 (as claimed): after every sentry event exactly one write was issued and
\* the slot holds exactly that event's token.
C6_SlotHoldsToken ==
    event.name = "sentry" =>
        /\ Count(calls, "writeFileSync") = 1
        /\ sentryFile = event.token
\* C6 (amended): every sentry event issues exactly one write; when the write
\* succeeds the slot holds exactly that event's token whatever it held before
\* (so the same token delivered twice leaves it as delivered once); a write
\* that fails is swallowed, the process keeps running, and the slot keeps its
\* previous content or is left truncated.
C6_SlotHoldsTokenIfWritten ==
    [][ event'.name = "sentry" =>
            /\ Count(calls', "writeFileSync") = 1
            /\ Len(calls') = 1
            /\ pc' = "running"
            /\ event'.token \in Tokens
            /\ IF event'.io = "ok"
               THEN sentryFile' = event'.token
               ELSE sentryFile' \in {sentryFile, Truncated}
      ]_vars
C6_Witness ==
    /\ event.name = "sentry" /\ event.io = "ok"
    /\ event.token = "tokB" /\ sentryFile = "tokB"
    /\ SENTRY_ENV = "" /\ persona = Invisible

\* C7: with a shared secret configured, every attempt (the first and each
\* retry) builds its bundle in the handler that submits it and calls the code
\* generator exactly once for it, before the submission; the code it carries
\* is the one that call returned, or none when the call failed.
C7_FreshCodePerAttempt ==
    (event.name \in {"main", "timer"} /\ SHARED_SECRET # "" /\ opts # NoOpts) =>
        /\ Count(calls, "generateAuthCode") = 1
        /\ Count(calls, "logOn") = 1
        /\ \E i, j \in 1..Len(calls) :
               i < j /\ calls[i] = "generateAuthCode" /\ calls[j] = "logOn"
        /\ opts.accountName = USERNAME /\ opts.password = PASSWORD
        /\ opts.twoFactorCode \in {Absent, "totp:" \o SHARED_SECRET}
        /\ opts.twoFactorCode = Absent <=> SHARED_SECRET = "not-a-secret"
C7_Witness ==
    /\ event.name = "timer" /\ SHARED_SECRET = "SECRET" /\ armed >= 2
    /\ opts.twoFactorCode = "totp:SECRET" /\ client = "connecting"

\* C8 (as claimed): every error event carrying a numeric failure code
\* increments the retry count and either arms a backoff timer or, on
\* exhaustion, terminates the process.
C8_ErrorIsRetried ==
    [][ (event'.name = "error" /\ event'.code # Undefined) =>
            /\ retryCount' = retryCount + 1
            /\ lastCode' = event'.code
            /\ \/ armed' = armed + 1
               \/ pc' = "exited"
      ]_vars

\* C9 (as claimed): every login response carrying a numeric code other than 1
\* is routed to scheduleRetry and retried while the budget lasts; code 1
\* never is.
C9_NonSuccessRetried ==
    [][ (event'.name = "logOnResponse" /\ event'.code # Undefined) =>
            IF event'.code # 1
            THEN /\ retryCount' = retryCount + 1
                 /\ lastCode' = event'.code
                 /\ IF retryCount' <= 6 THEN armed' = armed + 1 /\ pc' = "running"
                                        ELSE pc' = "exited"
            ELSE retryCount' = retryCount /\ armed' = armed /\ pc' = pc
      ]_vars
\* C9 (amended): every login response carrying a non-zero code other than 1,
\* rate limit or not, is routed to scheduleRetry and retried while the budget
\* lasts; a response with code 1, with code 0 or with no code never is.
C9_NonZeroNonSuccessRetried ==
    [][ event'.name = "logOnResponse" =>
            IF event'.code \notin {1, 0, Undefined}
            THEN /\ retryCount' = retryCount + 1
                 /\ lastCode' = event'.code
                 /\ IF retryCount' <= 6 THEN armed' = armed + 1 /\ pc' = "running"
                                        ELSE pc' = "exited"
            ELSE /\ retryCount' = retryCount /\ armed' = armed /\ pc' = pc
                 /\ timers' = timers /\ Len(calls') = 0
      ]_vars
C9_Witness ==
    /\ event.name = "logOnResponse" /\ event.code = 2
    /\ retryCount = 1 /\ armed = 1 /\ timers = 1 /\ delays = <<30000>>

\* C10: with the account name or the password missing, the script terminates
\* with a non-zero status before any login is submitted, any token written
\* or any retry scheduled.
C10_MissingCredentialsAbort ==
    [][ (USERNAME = "" \/ PASSWORD = "") =>
            /\ pc' = "exited" /\ exitCode' # 0 /\ exitCode' # NoExit
            /\ logins' = 0 /\ client' = "disconnected"
            /\ sentryFile' = sentryFile
            /\ retryCount' = 0 /\ armed' = 0 /\ timers' = 0
            /\ calls' = <<"exit">>
      ]_vars
C10_Witness ==
    /\ USERNAME = "acct" /\ PASSWORD = ""
    /\ SENTRY_ENV # "" /\ sentryFile = NoFile /\ SHARED_SECRET = "SECRET"
    /\ pc = "exited" /\ exitCode = 1 /\ logins = 0

\* C11: when an attempt is made with no shared secret configured and no
\* ./sentry file, attemptLogin terminates the process with a non-zero status,
\* submits no login and leaves the retry count as it is; this holds for the
\* first attempt and for every retry.
C11_NoCredentialSourceAborts ==
    [][ ( /\ event'.name \in {"main", "timer"}
          /\ USERNAME # "" /\ PASSWORD # ""
          /\ SHARED_SECRET = "" /\ sentryFile' = NoFile ) =>
            /\ pc' = "exited" /\ exitCode' # 0 /\ exitCode' # NoExit
            /\ logins' = logins
            /\ Count(calls', "logOn") = 0
            /\ retryCount' = retryCount /\ armed' = armed
            /\ Count(calls', "setTimeout") = 0
      ]_vars
\* A retry, not the first attempt, finds the file gone
C11_Witness ==
    /\ event.name = "timer" /\ SHARED_SECRET = "" /\ sentryFile = NoFile
    /\ pc = "exited" /\ exitCode = 1
    /\ logins = 1 /\ retryCount = 1 /\ armed = 1

C13_LoggedOnAnnounces ==
    [][ event'.name = "loggedOn" =>
            /\ calls' = <<"setPersona", "gamesPlayed">>
            /\ persona' = 7
            /\ played' = games
            /\ retryCount' = retryCount /\ armed' = armed /\ timers' = timers
            /\ delays' = delays
            /\ sentryFile' = sentryFile ]_vars

C13_Witness ==
    /\ event.name = "loggedOn"
    /\ calls = <<"setPersona", "gamesPlayed">>
    /\ persona = 7 /\ played = games
    /\ retryCount = 2 /\ logins = 3 /\ sentryFile = "tokA"

Positions(seq, x) == {i \in 1..Len(seq) : seq[i] = x}

\* C14: every failure that schedules a retry calls logOff before it arms the
\* timer, and no login is submitted between that logOff and the timer; whether
\* or not the logOff fails, one timer is armed, with the delay of the formula,
\* and the retry count has grown by exactly one.
C14_LogOffBeforeTimer ==
    [][ (retryCount' = retryCount + 1 /\ retryCount' <= MAX_RETRIES) =>
            /\ Count(calls', "logOff") = 1
            /\ Count(calls', "setTimeout") = 1
            /\ \A i \in Positions(calls', "logOff") :
                 /\ \A j \in Positions(calls', "setTimeout") : i < j
                 /\ \A j \in Positions(calls', "logOn") : j < i
            /\ armed' = armed + 1
            /\ timers' >= 1
            /\ delays'[Len(delays')] = Delay(lastCode', retryCount')
            /\ pc' = "running" ]_vars

C14_Witness ==
    /\ event.name = "logOnResponse" /\ event.code = 2
    /\ calls = <<"logOff", "setTimeout">>
    /\ client = "connected"
    /\ retryCount = 1 /\ armed = 1 /\ timers = 1 /\ delays = <<30000>>

\* C15 as stated: a login attempt built right after a new-token event whose
\* write succeeded carries that event's token, and a new-token event whose
\* write fails leaves the slot as it was.
C15_CarriesPersistedToken ==
    [][ /\ ( /\ event.name = "sentry" /\ event.io = "ok"
             /\ event'.name = "timer" ) => opts'.sentry = event.token
        /\ ( /\ event'.name = "sentry" /\ event'.io # "ok" ) =>
                 sentryFile' = sentryFile ]_vars

\* C15, amended: a login attempt carries the content the slot has when the
\* attempt is built if the read of the slot succeeds, and no token if the slot
\* is missing or its read fails; right after a successful new-token write that
\* content is the event's token.  A failing write is swallowed: the process
\* keeps running and the slot keeps its content or is left truncated.
C15_CarriesSlotIfRead ==
    [][ /\ (event'.name \in {"main", "timer"} /\ opts' # NoOpts) =>
             /\ opts'.sentry = IF event'.read = "ok" THEN sentryFile' ELSE Absent
             /\ (event'.read = "none") = (sentryFile' = NoFile)
        /\ ( /\ event.name = "sentry" /\ event.io = "ok"
             /\ event'.name = "timer" ) =>
                 /\ sentryFile' = event.token
                 /\ opts'.sentry = IF event'.read = "ok" THEN event.token ELSE Absent
        /\ ( /\ event'.name = "sentry" /\ event'.io # "ok" ) =>
                 /\ sentryFile' \in {sentryFile, Truncated}
                 /\ pc' = "running" /\ exitCode' = NoExit ]_vars

C15_Witness ==
    /\ event.name = "timer" /\ event.read = "ok"
    /\ SENTRY_ENV = ""
    /\ sentryFile = "tokB" /\ opts.sentry = "tokB"
    /\ logins = 2 /\ client = "connecting"

\* C16: when timers fire and pending logins are answered, every execution
\* eventually is connected or has exited (challenge abort, configuration abort
\* or retry exhaustion); it does not wait forever while connecting or backing off.
C16_EventuallySettles == <>(client = "connected" \/ pc = "exited")

\* C17: the retry count starts at 0 and every step either leaves it alone or
\* adds exactly one inside a handler that can reach scheduleRetry (the script,
\* a timer, a logOnResponse); no event lowers or resets it, a loggedOn event
\* included, so failures after a success keep counting from the earlier ones.
C17_RetryCountOnlyGrows ==
    /\ retryCount = 0
    /\ [][ /\ retryCount' \in {retryCount, retryCount + 1}
           /\ retryCount' # retryCount =>
                  /\ event'.name \in {"main", "timer", "logOnResponse"}
                  /\ lastCode' = event'.code \/ event'.name # "logOnResponse"
           /\ event'.name = "loggedOn" => retryCount' = retryCount
           /\ (retryCount' # retryCount /\ pc' = "running") =>
                  delays'[Len(delays')] = Delay(lastCode', retryCount + 1) ]_vars

C17_Witness ==
    /\ event.name = "logOnResponse" /\ event.code = 84
    /\ persona = Invisible
    /\ retryCount = 3 /\ armed = 3
    /\ delays = <<30000, 60000, 240000>>

\* C18: every scheduled delay lies between 30000 ms and 60000 * 2^5 = 1920000 ms,
\* and from one retry to the next the delay never shrinks: it stays equal
\* (rate-limit base followed by the default base), doubles, or quadruples.
C18_DelaysNonDecreasing ==
    /\ \A i \in 1..Len(delays) :
          /\ delays[i] >= 30000
          /\ delays[i] <= 1920000
    /\ \A i \in 1..(Len(delays) - 1) :
          /\ delays[i + 1] >= delays[i]
          /\ delays[i + 1] \in {delays[i], 2 * delays[i], 4 * delays[i]}

C18_Witness ==
    /\ armed = 6 /\ retryCount = 6
    /\ delays = <<480000, 480000, 1920000>>

\* C19: the script seeds the slot from the configured token only when the slot
\* is empty and a token is configured; a slot that already has content is left
\* as it is by the script, and the only handler that puts other content into an
\* existing slot is the new-token (sentry) handler.
C19_SeedOnlyWhenEmpty ==
    [][ /\ (event'.name = "main" /\ sentryFile # NoFile) =>
               /\ sentryFile' = sentryFile
               /\ Count(calls', "writeFileSync") = 0
        /\ (event'.name = "main" /\ Count(calls', "writeFileSync") > 0) =>
               /\ sentryFile = NoFile /\ SENTRY_ENV # ""
               /\ Count(calls', "writeFileSync") = 1
        /\ (sentryFile # NoFile /\ sentryFile' \notin {sentryFile, NoFile}) =>
               event'.name = "sentry" ]_vars

C19_Witness ==
    /\ event.name = "main" /\ event.io = "none"
    /\ SENTRY_ENV = ToBase64("tokB")
    /\ sentryFile = "tokA" /\ opts.sentry = "tokA"
    /\ Count(calls, "writeFileSync") = 0 /\ logins = 1

====
